---- MODULE Spec2Model ----
(***************************************************************************)
(* Sliding-window price statistics (price_stats.py): a ring of 60          *)
(* one-second buckets with running totals, once globally and once per      *)
(* instrument, behind one lock.  Threads call add_tick,                    *)
(* get_statistics_all and get_statistics_instrument; the wall clock        *)
(* advances on its own.  Prices are integers, an average is kept as the    *)
(* reduced fraction <<numerator, denominator>>.                            *)
(***************************************************************************)
EXTENDS Integers, Sequences, FiniteSets, Bags, TLC

(***************************************************************************)
(* Program constants                                                       *)
(***************************************************************************)
SLIDING_WINDOW == 60

PosInf == 1000000000

NegInf == 0 - PosInf

(***************************************************************************)
(* Bounds of the model                                                     *)
(***************************************************************************)
\* total number of calls (add_tick or get_*) the threads make under Spec
MaxOps == 2

\* total number of calls the threads make under SpecThreads
MaxThreadCalls == 3

\* total number of calls the threads make under SpecFair
MaxFairCalls == 3

\* number of times the clock jumps
MaxAdvances == 1

\* the clock (ms) when the service is constructed
StartMs == 120500

Threads == {"t1", "t2"}

Instruments == {"A", "B"}

Prices == {10, 20}

\* a tick's timestamp relative to the clock at the call (ms)
Skews == {0 - 60001, 0 - 60000, 0, 500}

\* the same, for the calls made under SpecThreads
ThreadSkews == {0 - 60000, 0}

\* the same, for the calls made under SpecFair
FairSkews == {0 - 60001, 0}

\* the amounts (ms) the clock jumps by
ClockSteps == {60001}

VARIABLES
  now,             \* time.time() * 1000
  global_buckets,  \* StatisticsComputation.global_buckets
  global_sum,
  global_count,
  global_min,
  global_max,
  instruments,     \* StatisticsComputation.instruments: id -> object
  heap,            \* the InstrumentStats objects ever constructed
  lock,            \* StatisticsComputation.lock: its holder, or NoThread
  pc,              \* each thread's position
  local,           \* each thread's local variables of the call in progress
  ret,             \* each thread's last return value
  ops,             \* number of calls made (counted under Spec)
  calls,           \* number of calls each thread has made (counted under SpecThreads)
  advances,        \* number of clock jumps
  accepted,        \* history: bag of the ticks add_tick returned True for
  stable,          \* history: the snapshots as of the last completed add_tick
  runs             \* history: per ring and slot, the second last written and its prices

vars == <<now, global_buckets, global_sum, global_count, global_min, global_max,
          instruments, heap, lock, pc, local, ret, ops, calls, advances, accepted, stable, runs>>

engine == <<global_buckets, global_sum, global_count, global_min, global_max,
            instruments, heap>>

(***************************************************************************)
(* Values                                                                  *)
(***************************************************************************)
Slots == 0 .. (SLIDING_WINDOW - 1)

NoThread == "none"

NoObject == <<"none", 0>>

MinOf(a, b) == IF a <= b THEN a ELSE b

MaxOf(a, b) == IF a >= b THEN a ELSE b

RECURSIVE Gcd(_, _)
Gcd(a, b) == IF b = 0 THEN a ELSE Gcd(b, a % b)

\* sum / count, as a reduced fraction (count > 0, sum >= 0)
Quotient(s, c) == LET g == Gcd(s, c) IN <<s \div g, c \div g>>

\* the float 0.0
Zero == <<0, 1>>

\* a float that is a whole number
Whole(x) == <<x, 1>>

\* _Bucket.__init__
NewBucket ==
  [timestamp |-> 0, sum |-> 0, count |-> 0, min_price |-> PosInf, max_price |-> NegInf]

\* variant: reset leaves min_price and max_price as they were
BucketResetKeepsExtremes(b, new_timestamp) ==
  [timestamp |-> new_timestamp, sum |-> 0, count |-> 0,
   min_price |-> b.min_price, max_price |-> b.max_price]

\* _Bucket.reset
BucketReset(b, new_timestamp) ==
  [timestamp |-> new_timestamp, sum |-> 0, count |-> 0,
   min_price |-> PosInf, max_price |-> NegInf]

\* bucket.sum += price ... bucket.max_price = max(bucket.max_price, price)
BucketAdd(b, price) ==
  [b EXCEPT !.sum = @ + price, !.count = @ + 1,
            !.min_price = MinOf(@, price), !.max_price = MaxOf(@, price)]

\* variant: the bucket's second compared with the tick's milliseconds
StaleMs(b, ts_sec) == b.timestamp # ts_sec * 1000

\* the test "bucket.timestamp != ts_sec"
Stale(b, ts_sec) == b.timestamp # ts_sec

\* InstrumentStats.__init__
NewInstrumentStats ==
  [buckets |-> [i \in Slots |-> NewBucket],
   sum |-> 0, count |-> 0, min_price |-> PosInf, max_price |-> NegInf]

\* variant: a stale bucket is reset, its sum and count are not subtracted
InstAddTickKeepTotals(s, price, ts_sec) ==
  LET idx == ts_sec % SLIDING_WINDOW
      bucket == s.buckets[idx]
      bucket1 == IF Stale(bucket, ts_sec) THEN BucketReset(bucket, ts_sec) ELSE bucket
  IN [buckets |-> [s.buckets EXCEPT ![idx] = BucketAdd(bucket1, price)],
      sum |-> s.sum + price,
      count |-> s.count + 1,
      min_price |-> MinOf(s.min_price, price),
      max_price |-> MaxOf(s.max_price, price)]

\* InstrumentStats.add_tick
InstAddTick(s, price, ts_sec) ==
  LET idx == ts_sec % SLIDING_WINDOW
      bucket == s.buckets[idx]
      evict == Stale(bucket, ts_sec) /\ bucket.count > 0
      sum1 == IF evict THEN s.sum - bucket.sum ELSE s.sum
      count1 == IF evict THEN s.count - bucket.count ELSE s.count
      bucket1 == IF Stale(bucket, ts_sec) THEN BucketReset(bucket, ts_sec) ELSE bucket
  IN [buckets |-> [s.buckets EXCEPT ![idx] = BucketAdd(bucket1, price)],
      sum |-> sum1 + price,
      count |-> count1 + 1,
      min_price |-> MinOf(s.min_price, price),
      max_price |-> MaxOf(s.max_price, price)]

\* Statistics(avg=0.0, max=0.0, min=0.0, count=0)
ZeroStats == [avg |-> Zero, max |-> Zero, min |-> Zero, count |-> 0]

\* InstrumentStats.capture
Capture(s) ==
  IF s.count = 0
  THEN ZeroStats
  ELSE [avg |-> Quotient(s.sum, s.count), max |-> Whole(s.max_price),
        min |-> Whole(s.min_price), count |-> s.count]

\* lines 198-205: the value get_statistics_all builds when the engine is e
SnapshotAll(e) ==
  IF e.global_count = 0
  THEN ZeroStats
  ELSE [avg |-> Quotient(e.global_sum, e.global_count), max |-> Whole(e.global_max),
        min |-> Whole(e.global_min), count |-> e.global_count]

\* self.instruments.get(instrument)
InstrumentsGet(e, instrument) ==
  IF instrument \in DOMAIN e.instruments THEN e.instruments[instrument] ELSE NoObject

\* variant: an unknown instrument reads the global statistics
SnapshotInstrumentFallback(e, instrument) ==
  LET inst == InstrumentsGet(e, instrument)
  IN IF inst = NoObject THEN SnapshotAll(e)
     ELSE IF e.heap[inst].count = 0 THEN ZeroStats
     ELSE Capture(e.heap[inst])

\* lines 214-217: the value get_statistics_instrument builds when the engine is e
SnapshotInstrument(e, instrument) ==
  LET inst == InstrumentsGet(e, instrument)
  IN IF inst = NoObject \/ e.heap[inst].count = 0
     THEN ZeroStats
     ELSE Capture(e.heap[inst])

\* variant: the ages compared in whole seconds
TooOldBySeconds(timestamp_ms, now_ms) ==
  timestamp_ms \div 1000 < now_ms \div 1000 - SLIDING_WINDOW

\* variant: a tick exactly SLIDING_WINDOW seconds old is too old as well
TooOldInclusive(timestamp_ms, now_ms) == timestamp_ms <= now_ms - SLIDING_WINDOW * 1000

\* variant: a tick ahead of the clock is refused as well
TooOldOrAhead(timestamp_ms, now_ms) ==
  timestamp_ms < now_ms - SLIDING_WINDOW * 1000 \/ timestamp_ms > now_ms

\* the test "timestamp_ms < now_ms - SLIDING_WINDOW * 1000"
TooOld(timestamp_ms, now_ms) == timestamp_ms < now_ms - SLIDING_WINDOW * 1000

NoLocal ==
  [instrument |-> "", price |-> 0, timestamp_ms |-> 0, now_ms |-> 0,
   ts_sec |-> 0, idx |-> 0, inst |-> NoObject]

NoRet == [kind |-> "none", ok |-> FALSE, stats |-> ZeroStats]

BoolRet(b) == [kind |-> "bool", ok |-> b, stats |-> ZeroStats]

StatsRet(s) == [kind |-> "stats", ok |-> TRUE, stats |-> s]

\* variant: the lock never makes a thread wait
LockIgnored == TRUE

\* self.lock can be taken
LockFree == lock = NoThread

(***************************************************************************)
(* The engine's state as one record, and the parts of add_tick's critical  *)
(* section as functions of it.  e is the engine, l the calling thread's    *)
(* local variables.                                                        *)
(***************************************************************************)
Engine ==
  [global_buckets |-> global_buckets, global_sum |-> global_sum,
   global_count |-> global_count, global_min |-> global_min,
   global_max |-> global_max, instruments |-> instruments, heap |-> heap]

\* the next state's engine is e
SetEngine(e) ==
  /\ global_buckets' = e.global_buckets
  /\ global_sum' = e.global_sum
  /\ global_count' = e.global_count
  /\ global_min' = e.global_min
  /\ global_max' = e.global_max
  /\ instruments' = e.instruments
  /\ heap' = e.heap

\* variant: the stale bucket is reset, its totals are not subtracted
GlobalEvictKeepTotals(e, l) ==
  LET bucket == e.global_buckets[l.idx]
  IN IF Stale(bucket, l.ts_sec)
     THEN [e EXCEPT !.global_buckets[l.idx] = BucketReset(bucket, l.ts_sec)]
     ELSE e

\* variant: an eviction that empties the window starts the extremes afresh
GlobalEvictResetsExtremes(e, l) ==
  LET bucket == e.global_buckets[l.idx]
      emptied == bucket.count > 0 /\ e.global_count = bucket.count
  IN IF Stale(bucket, l.ts_sec)
     THEN [e EXCEPT
             !.global_sum = IF bucket.count > 0 THEN @ - bucket.sum ELSE @,
             !.global_count = IF bucket.count > 0 THEN @ - bucket.count ELSE @,
             !.global_min = IF emptied THEN PosInf ELSE @,
             !.global_max = IF emptied THEN NegInf ELSE @,
             !.global_buckets[l.idx] = BucketReset(bucket, l.ts_sec)]
     ELSE e

\* lines 162-168: evict and reset a stale global bucket
GlobalEvict(e, l) ==
  LET bucket == e.global_buckets[l.idx]
  IN IF Stale(bucket, l.ts_sec)
     THEN [e EXCEPT
             !.global_sum = IF bucket.count > 0 THEN @ - bucket.sum ELSE @,
             !.global_count = IF bucket.count > 0 THEN @ - bucket.count ELSE @,
             !.global_buckets[l.idx] = BucketReset(bucket, l.ts_sec)]
     ELSE e

\* lines 171-174: add the tick to the global bucket
GlobalBucket(e, l) ==
  [e EXCEPT !.global_buckets[l.idx] = BucketAdd(@, l.price)]

\* variant: global_max is updated with min in place of max
GlobalTotalsMaxByMin(e, l) ==
  [e EXCEPT !.global_sum = @ + l.price,
            !.global_count = @ + 1,
            !.global_min = MinOf(@, l.price),
            !.global_max = MinOf(@, l.price)]

\* lines 177-180: update the global aggregates
GlobalTotals(e, l) ==
  [e EXCEPT !.global_sum = @ + l.price,
            !.global_count = @ + 1,
            !.global_min = MinOf(@, l.price),
            !.global_max = MaxOf(@, l.price)]

\* line 183: inst = self.instruments.get(instrument)
InstGet(e, l) == InstrumentsGet(e, l.instrument)

\* line 185: the object InstrumentStats() constructs
InstNew(e, l) ==
  <<l.instrument, 1 + Cardinality({x \in DOMAIN e.heap : x[1] = l.instrument})>>

\* lines 184-186: construct and register the instrument's aggregator
InstCreate(e, l) ==
  IF l.inst = NoObject
  THEN [e EXCEPT !.heap = (InstNew(e, l) :> NewInstrumentStats) @@ @,
                 !.instruments = (l.instrument :> InstNew(e, l)) @@ @]
  ELSE e

\* the value of inst after lines 184-186
InstRef(e, l) == IF l.inst = NoObject THEN InstNew(e, l) ELSE l.inst

\* variant: the tick is added to every registered aggregator
InstAddAll(e, l) ==
  [e EXCEPT !.heap = [o \in DOMAIN @ |-> InstAddTick(@[o], l.price, l.ts_sec)]]

\* line 187: inst.add_tick(price, ts_sec)
InstAdd(e, l) ==
  [e EXCEPT !.heap[l.inst] = InstAddTick(@, l.price, l.ts_sec)]

\* lines 160-187: the whole critical section of add_tick
CriticalSection(e, l) ==
  LET e1 == GlobalTotals(GlobalBucket(GlobalEvict(e, l), l), l)
      l1 == [l EXCEPT !.inst = InstGet(e1, l)]
      e2 == InstCreate(e1, l1)
      l2 == [l1 EXCEPT !.inst = InstRef(e1, l1)]
  IN InstAdd(e2, l2)

\* what the get_statistics_* calls return in the current state
StatisticsAll == SnapshotAll(Engine)

StatisticsInstrument(instrument) == SnapshotInstrument(Engine, instrument)

\* history: the snapshots of the engine e, as of a completed add_tick
StableOf(e) ==
  [all |-> SnapshotAll(e),
   inst |-> [i \in Instruments |-> SnapshotInstrument(e, i)]]

\* the tick a thread's locals describe
TickOf(l) ==
  [instrument |-> l.instrument, price |-> l.price, timestamp_ms |-> l.timestamp_ms]

\* history: the tick of l goes to the slot l.idx of the ring; a slot holds
\* the prices written to it since the second written to it last changed
RunAdd(r, ring, l) ==
  LET key == <<ring, l.idx>>
  IN IF key \in DOMAIN r /\ r[key].second = l.ts_sec
     THEN [r EXCEPT ![key].prices = @ (+) SetToBag({l.price})]
     ELSE (key :> [second |-> l.ts_sec, prices |-> SetToBag({l.price})]) @@ r

RunsAdd(r, l) == RunAdd(RunAdd(r, "global", l), l.instrument, l)

(***************************************************************************)
(* Initial state: StatisticsComputation.__init__                           *)
(***************************************************************************)
Init ==
  /\ now = StartMs
  /\ global_buckets = [i \in Slots |-> NewBucket]
  /\ global_sum = 0
  /\ global_count = 0
  /\ global_min = PosInf
  /\ global_max = NegInf
  /\ instruments = <<>>
  /\ heap = <<>>
  /\ lock = NoThread
  /\ pc = [t \in Threads |-> "idle"]
  /\ local = [t \in Threads |-> NoLocal]
  /\ ret = [t \in Threads |-> NoRet]
  /\ ops = 0
  /\ calls = [t \in Threads |-> 0]
  /\ advances = 0
  /\ accepted = EmptyBag
  /\ stable = StableOf(Engine)
  /\ runs = <<>>

(***************************************************************************)
(* The clock                                                               *)
(***************************************************************************)
ClockAdvance(d) ==
  /\ advances < MaxAdvances
  /\ now' = now + d
  /\ advances' = advances + 1
  /\ UNCHANGED <<engine, lock, pc, local, ret, ops, calls, accepted, stable, runs>>

(***************************************************************************)
(* add_tick                                                                *)
(***************************************************************************)
\* lines 153-158: read the clock, reject a tick that is too old, else
\* compute ts_sec and idx and go on to take the lock
AddTickCall(t, instrument, price, timestamp_ms) ==
  /\ pc[t] = "idle"
  /\ IF TooOld(timestamp_ms, now)
     THEN /\ ret' = [ret EXCEPT ![t] = BoolRet(FALSE)]
          /\ UNCHANGED <<pc, local>>
     ELSE /\ local' = [local EXCEPT ![t] =
                 [instrument |-> instrument, price |-> price,
                  timestamp_ms |-> timestamp_ms, now_ms |-> now,
                  ts_sec |-> timestamp_ms \div 1000,
                  idx |-> (timestamp_ms \div 1000) % SLIDING_WINDOW,
                  inst |-> NoObject]]
          /\ pc' = [pc EXCEPT ![t] = "acquire"]
          /\ ret' = [ret EXCEPT ![t] = NoRet]
  /\ UNCHANGED <<now, engine, lock, advances, accepted, stable, runs>>

\* lines 160-189 as the one step the lock makes of them: take the lock, run
\* the critical section, release the lock, return True
AddTickCommit(t) ==
  /\ pc[t] = "acquire"
  /\ LockFree
  /\ SetEngine(CriticalSection(Engine, local[t]))
  /\ stable' = StableOf(CriticalSection(Engine, local[t]))
  /\ runs' = RunsAdd(runs, local[t])
  /\ ret' = [ret EXCEPT ![t] = BoolRet(TRUE)]
  /\ accepted' = accepted (+) SetToBag({TickOf(local[t])})
  /\ local' = [local EXCEPT ![t] = NoLocal]
  /\ pc' = [pc EXCEPT ![t] = "idle"]
  /\ UNCHANGED <<now, lock, advances>>

\* variant: add_tick enters its critical section without waiting
AddTickAcquireNoWait(t) ==
  /\ pc[t] = "acquire"
  /\ lock' = t
  /\ pc' = [pc EXCEPT ![t] = "gevict"]
  /\ UNCHANGED <<now, engine, local, ret, advances, accepted, stable, runs>>

\* line 160: with self.lock
AddTickAcquire(t) ==
  /\ pc[t] = "acquire"
  /\ LockFree
  /\ lock' = t
  /\ pc' = [pc EXCEPT ![t] = "gevict"]
  /\ UNCHANGED <<now, engine, local, ret, advances, accepted, stable, runs>>

\* lines 162-168
AddTickGlobalEvict(t) ==
  /\ pc[t] = "gevict"
  /\ SetEngine(GlobalEvict(Engine, local[t]))
  /\ pc' = [pc EXCEPT ![t] = "gbucket"]
  /\ UNCHANGED <<now, lock, local, ret, advances, accepted, stable, runs>>

\* lines 171-174
AddTickGlobalBucket(t) ==
  /\ pc[t] = "gbucket"
  /\ SetEngine(GlobalBucket(Engine, local[t]))
  /\ pc' = [pc EXCEPT ![t] = "gtotals"]
  /\ UNCHANGED <<now, lock, local, ret, advances, accepted, stable, runs>>

\* lines 177-180
AddTickGlobalTotals(t) ==
  /\ pc[t] = "gtotals"
  /\ SetEngine(GlobalTotals(Engine, local[t]))
  /\ pc' = [pc EXCEPT ![t] = "iget"]
  /\ UNCHANGED <<now, lock, local, ret, advances, accepted, stable, runs>>

\* line 183
AddTickInstGet(t) ==
  /\ pc[t] = "iget"
  /\ local' = [local EXCEPT ![t].inst = InstGet(Engine, local[t])]
  /\ pc' = [pc EXCEPT ![t] = "icreate"]
  /\ UNCHANGED <<now, engine, lock, ret, advances, accepted, stable, runs>>

\* lines 184-186
AddTickInstCreate(t) ==
  /\ pc[t] = "icreate"
  /\ SetEngine(InstCreate(Engine, local[t]))
  /\ local' = [local EXCEPT ![t].inst = InstRef(Engine, local[t])]
  /\ pc' = [pc EXCEPT ![t] = "iadd"]
  /\ UNCHANGED <<now, lock, ret, advances, accepted, stable, runs>>

\* line 187
AddTickInstAdd(t) ==
  /\ pc[t] = "iadd"
  /\ SetEngine(InstAdd(Engine, local[t]))
  /\ pc' = [pc EXCEPT ![t] = "release"]
  /\ UNCHANGED <<now, lock, local, ret, advances, accepted, stable, runs>>

\* variant: add_tick returns without giving the lock back
AddTickReturnKeepsLock(t) ==
  /\ pc[t] = "release"
  /\ ret' = [ret EXCEPT ![t] = BoolRet(TRUE)]
  /\ accepted' = accepted (+) SetToBag({TickOf(local[t])})
  /\ local' = [local EXCEPT ![t] = NoLocal]
  /\ pc' = [pc EXCEPT ![t] = "idle"]
  /\ stable' = StableOf(Engine)
  /\ runs' = RunsAdd(runs, local[t])
  /\ UNCHANGED <<now, engine, lock, advances>>

\* line 189: leave the with block, return True
AddTickReturn(t) ==
  /\ pc[t] = "release"
  /\ lock' = NoThread
  /\ ret' = [ret EXCEPT ![t] = BoolRet(TRUE)]
  /\ accepted' = accepted (+) SetToBag({TickOf(local[t])})
  /\ local' = [local EXCEPT ![t] = NoLocal]
  /\ pc' = [pc EXCEPT ![t] = "idle"]
  /\ stable' = StableOf(Engine)
  /\ runs' = RunsAdd(runs, local[t])
  /\ UNCHANGED <<now, engine, advances>>

(***************************************************************************)
(* get_statistics_all                                                      *)
(***************************************************************************)
\* lines 197-205 as the one step the lock makes of them
GetStatisticsAll(t) ==
  /\ pc[t] = "idle"
  /\ LockFree
  /\ ret' = [ret EXCEPT ![t] = StatsRet(StatisticsAll)]
  /\ UNCHANGED <<now, engine, lock, pc, local, advances, accepted, stable, runs>>

GetAllCall(t) ==
  /\ pc[t] = "idle"
  /\ pc' = [pc EXCEPT ![t] = "ga_acquire"]
  /\ ret' = [ret EXCEPT ![t] = NoRet]
  /\ UNCHANGED <<now, engine, lock, local, advances, accepted, stable, runs>>

\* variant: get_statistics_all reads without waiting for the lock
GetAllAcquireNoWait(t) ==
  /\ pc[t] = "ga_acquire"
  /\ lock' = t
  /\ pc' = [pc EXCEPT ![t] = "ga_read"]
  /\ UNCHANGED <<now, engine, local, ret, advances, accepted, stable, runs>>

\* line 197: with self.lock
GetAllAcquire(t) ==
  /\ pc[t] = "ga_acquire"
  /\ LockFree
  /\ lock' = t
  /\ pc' = [pc EXCEPT ![t] = "ga_read"]
  /\ UNCHANGED <<now, engine, local, ret, advances, accepted, stable, runs>>

\* lines 198-205: build the result, leave the with block, return it
GetAllReturn(t) ==
  /\ pc[t] = "ga_read"
  /\ ret' = [ret EXCEPT ![t] = StatsRet(StatisticsAll)]
  /\ lock' = NoThread
  /\ pc' = [pc EXCEPT ![t] = "idle"]
  /\ UNCHANGED <<now, engine, local, advances, accepted, stable, runs>>

(***************************************************************************)
(* get_statistics_instrument                                               *)
(***************************************************************************)
\* variant: the lookup registers an aggregator for an id it does not know
GetStatisticsInstrumentRegisters(t, instrument) ==
  /\ pc[t] = "idle"
  /\ LockFree
  /\ ret' = [ret EXCEPT ![t] = StatsRet(StatisticsInstrument(instrument))]
  /\ SetEngine(InstCreate(Engine, [NoLocal EXCEPT !.instrument = instrument,
                                     !.inst = InstrumentsGet(Engine, instrument)]))
  /\ UNCHANGED <<now, lock, pc, local, advances, accepted, stable, runs>>

\* lines 213-217 as the one step the lock makes of them
GetStatisticsInstrument(t, instrument) ==
  /\ pc[t] = "idle"
  /\ LockFree
  /\ ret' = [ret EXCEPT ![t] = StatsRet(StatisticsInstrument(instrument))]
  /\ UNCHANGED <<now, engine, lock, pc, local, advances, accepted, stable, runs>>

GetInstCall(t, instrument) ==
  /\ pc[t] = "idle"
  /\ pc' = [pc EXCEPT ![t] = "gi_acquire"]
  /\ local' = [local EXCEPT ![t] = [NoLocal EXCEPT !.instrument = instrument]]
  /\ ret' = [ret EXCEPT ![t] = NoRet]
  /\ UNCHANGED <<now, engine, lock, advances, accepted, stable, runs>>

\* line 213: with self.lock
GetInstAcquire(t) ==
  /\ pc[t] = "gi_acquire"
  /\ LockFree
  /\ lock' = t
  /\ pc' = [pc EXCEPT ![t] = "gi_read"]
  /\ UNCHANGED <<now, engine, local, ret, advances, accepted, stable, runs>>

\* lines 214-217: look the instrument up, build the result, return it
GetInstReturn(t) ==
  /\ pc[t] = "gi_read"
  /\ ret' = [ret EXCEPT ![t] = StatsRet(StatisticsInstrument(local[t].instrument))]
  /\ lock' = NoThread
  /\ local' = [local EXCEPT ![t] = NoLocal]
  /\ pc' = [pc EXCEPT ![t] = "idle"]
  /\ UNCHANGED <<now, engine, advances, accepted, stable, runs>>

(***************************************************************************)
(* Spec: every call's locked region is one step (what the lock makes of    *)
(* it); the clock check of add_tick is a step of its own, so calls and     *)
(* clock jumps come between a tick's admission and its recording.          *)
(***************************************************************************)
\* one more call, of at most MaxOps
CountOp ==
  /\ ops < MaxOps
  /\ ops' = ops + 1
  /\ UNCHANGED calls

\* a step of a call already counted
Counted == UNCHANGED <<ops, calls>>

\* the threads are interchangeable workers: a new call goes to the first
\* idle one
Serves(t) == pc[t] = "idle" /\ (t = "t2" => pc["t1"] # "idle")

Next ==
  \/ \E d \in ClockSteps : ClockAdvance(d)
  \/ \E t \in Threads, i \in Instruments, p \in Prices, s \in Skews :
       Serves(t) /\ CountOp /\ AddTickCall(t, i, p, now + s)
  \/ \E t \in Threads : Counted /\ AddTickCommit(t)
  \/ \E t \in Threads : Serves(t) /\ CountOp /\ GetStatisticsAll(t)
  \/ \E t \in Threads, i \in Instruments :
       Serves(t) /\ CountOp /\ GetStatisticsInstrument(t, i)

Spec == Init /\ [][Next]_vars

(***************************************************************************)
(* SpecThreads: the threads interleave statement by statement, and only    *)
(* the lock keeps them apart.                                              *)
(***************************************************************************)
\* one more call, by thread t, of at most MaxThreadCalls
CountCall(t) ==
  /\ calls["t1"] + calls["t2"] < MaxThreadCalls
  /\ calls' = [calls EXCEPT ![t] = @ + 1]
  /\ UNCHANGED ops

NextThreads ==
  \/ \E t \in Threads, i \in Instruments, p \in Prices, s \in ThreadSkews :
       CountCall(t) /\ AddTickCall(t, i, p, now + s)
  \/ \E t \in Threads : Counted /\ AddTickAcquire(t)
  \/ \E t \in Threads : Counted /\ AddTickGlobalEvict(t)
  \/ \E t \in Threads : Counted /\ AddTickGlobalBucket(t)
  \/ \E t \in Threads : Counted /\ AddTickGlobalTotals(t)
  \/ \E t \in Threads : Counted /\ AddTickInstGet(t)
  \/ \E t \in Threads : Counted /\ AddTickInstCreate(t)
  \/ \E t \in Threads : Counted /\ AddTickInstAdd(t)
  \/ \E t \in Threads : Counted /\ AddTickReturn(t)
  \/ \E t \in Threads : CountCall(t) /\ GetAllCall(t)
  \/ \E t \in Threads : Counted /\ GetAllAcquire(t)
  \/ \E t \in Threads : Counted /\ GetAllReturn(t)
  \/ \E t \in Threads, i \in Instruments : CountCall(t) /\ GetInstCall(t, i)
  \/ \E t \in Threads : Counted /\ GetInstAcquire(t)
  \/ \E t \in Threads : Counted /\ GetInstReturn(t)

SpecThreads == Init /\ [][NextThreads]_vars

(***************************************************************************)
(* SpecFair: the threads interleave statement by statement as under        *)
(* SpecThreads, ticks too old to be admitted included, and the scheduler   *)
(* is fair: a thread that can take its next step, continuously, takes it.  *)
(***************************************************************************)
\* one more call, by thread t, of at most MaxFairCalls
CountFair(t) ==
  /\ calls["t1"] + calls["t2"] < MaxFairCalls
  /\ calls' = [calls EXCEPT ![t] = @ + 1]
  /\ UNCHANGED ops

\* thread t goes on with the call it is in
Step(t) ==
  /\ Counted
  /\ \/ AddTickAcquire(t)
     \/ AddTickGlobalEvict(t)
     \/ AddTickGlobalBucket(t)
     \/ AddTickGlobalTotals(t)
     \/ AddTickInstGet(t)
     \/ AddTickInstCreate(t)
     \/ AddTickInstAdd(t)
     \/ AddTickReturn(t)
     \/ GetAllAcquire(t)
     \/ GetAllReturn(t)
     \/ GetInstAcquire(t)
     \/ GetInstReturn(t)

NextFair ==
  \/ \E t \in Threads, i \in Instruments, p \in Prices, s \in FairSkews :
       CountFair(t) /\ AddTickCall(t, i, p, now + s)
  \/ \E t \in Threads : CountFair(t) /\ GetAllCall(t)
  \/ \E t \in Threads, i \in Instruments : CountFair(t) /\ GetInstCall(t, i)
  \/ \E t \in Threads : Step(t)

SpecFair == Init /\ [][NextFair]_vars /\ \A t \in Threads : WF_vars(Step(t))

(***************************************************************************)
(* Notions the properties are stated with                                  *)
(***************************************************************************)
\* the distinct ticks accepted so far
AcceptedTicks == BagToSet(accepted)

\* how many accepted ticks lie in the set S of ticks
RECURSIVE TickCount(_)
TickCount(S) ==
  IF S = {} THEN 0
  ELSE LET x == CHOOSE y \in S : TRUE
       IN CopiesIn(x, accepted) + TickCount(S \ {x})

\* the sum of the prices of the accepted ticks in S
RECURSIVE PriceSum(_)
PriceSum(S) ==
  IF S = {} THEN 0
  ELSE LET x == CHOOSE y \in S : TRUE
       IN x.price * CopiesIn(x, accepted) + PriceSum(S \ {x})

LowestPrice(S) == CHOOSE p \in {x.price : x \in S} : \A x \in S : p <= x.price

HighestPrice(S) == CHOOSE p \in {x.price : x \in S} : \A x \in S : p >= x.price

\* the statistics of the ticks in S, computed from the ticks themselves
StatsOfTicks(S) ==
  [avg |-> Quotient(PriceSum(S), TickCount(S)), max |-> Whole(HighestPrice(S)),
   min |-> Whole(LowestPrice(S)), count |-> TickCount(S)]

TicksOf(instrument) == {x \in AcceptedTicks : x.instrument = instrument}

SecondOf(x) == x.timestamp_ms \div 1000

\* the second lies in the trailing window of the clock
InWindow(second) ==
  /\ second >= (now \div 1000) - (SLIDING_WINDOW - 1)
  /\ second <= now \div 1000

\* sum of field f over the buckets 0 .. n of a ring whose second is in the window
RECURSIVE WindowTotal(_, _, _)
WindowTotal(buckets, f, n) ==
  IF n < 0 THEN 0
  ELSE (IF InWindow(buckets[n].timestamp) THEN buckets[n][f] ELSE 0)
       + WindowTotal(buckets, f, n - 1)

\* running totals (sum, count) equal those of the buckets in the window
Windowed(buckets, sum, count) ==
  /\ sum = WindowTotal(buckets, "sum", SLIDING_WINDOW - 1)
  /\ count = WindowTotal(buckets, "count", SLIDING_WINDOW - 1)

AllWindowed ==
  /\ Windowed(global_buckets, global_sum, global_count)
  /\ \A i \in DOMAIN instruments :
       Windowed(heap[instruments[i]].buckets, heap[instruments[i]].sum,
                heap[instruments[i]].count)

\* the step is an add_tick of thread t recording its tick (Spec)
Recording(t) == Counted /\ AddTickCommit(t)

\* the call passed / failed the admission test of add_tick in this step
Admitted(t) == pc'[t] = "acquire"

Rejected(t) == pc'[t] = "idle" /\ ret'[t] = BoolRet(FALSE)

(***************************************************************************)
(* C1.  Immediately after every recorded tick, the running sum and count   *)
(* of the global aggregator and of every instrument's aggregator are the   *)
(* sum and count of exactly the buckets whose second lies in               *)
(* [now_second - 59, now_second].  Fails: add_tick at clock 120500 with    *)
(* timestamp 60500 is accepted into second 60, outside [61, 120], and      *)
(* counted; buckets that left the window are never subtracted unless       *)
(* their slot is written again.                                            *)
(***************************************************************************)
C1_TotalsAreWindowTotals ==
  [][\A t \in Threads : Recording(t) => AllWindowed']_vars

(***************************************************************************)
(* C2.  Whenever no accepted tick is timestamped within the 60 seconds     *)
(* before the clock (or later), both get_statistics_* return the all-zero  *)
(* result.  Fails: a tick, then the clock moves on by 60001 ms with no     *)
(* further ingest; the running count is still 1.                           *)
(***************************************************************************)
NoRecentTick == \A x \in AcceptedTicks : x.timestamp_ms < now - 60000

C2_EmptyWindowReadsZero ==
  NoRecentTick =>
    /\ StatisticsAll = ZeroStats
    /\ \A i \in Instruments : StatisticsInstrument(i) = ZeroStats

(***************************************************************************)
(* C3.  add_tick of a tick timestamped before now_ms - 60000 returns       *)
(* False and changes nothing of the engine: buckets, running totals,       *)
(* registry, aggregators, and so every snapshot.                           *)
(***************************************************************************)
C3_StaleTickRejected ==
  [][\A t \in Threads, i \in Instruments, p \in Prices, s \in Skews :
       (now + s < now - 60000 /\ CountOp /\ AddTickCall(t, i, p, now + s))
         => /\ Rejected(t)
            /\ UNCHANGED engine
            /\ DOMAIN instruments' = DOMAIN instruments
            /\ StatisticsAll' = StatisticsAll
            /\ \A j \in Instruments : StatisticsInstrument(j)' = StatisticsInstrument(j)
    ]_vars

\* a call was rejected, on an engine that holds ticks
C3_Witness ==
  /\ \E t \in Threads : pc[t] = "idle" /\ ret[t] = BoolRet(FALSE)
  /\ global_count > 0

(***************************************************************************)
(* C4.  As claimed: a tick with timestamp_ms >= now_ms - 59999 is          *)
(* admitted, one with timestamp_ms <= now_ms - 60000 is rejected.          *)
(***************************************************************************)
C4_BoundaryAsClaimed ==
  [][\A t \in Threads, i \in Instruments, p \in Prices, s \in Skews :
       (CountOp /\ AddTickCall(t, i, p, now + s))
         => /\ (now + s >= now - 59999) => Admitted(t)
            /\ (now + s <= now - 60000) => Rejected(t)
    ]_vars

(***************************************************************************)
(* C4, amended.  A tick with timestamp_ms >= now_ms - 60000 is admitted    *)
(* (and add_tick then returns True), one with timestamp_ms <=              *)
(* now_ms - 60001 is rejected: the tick exactly 60000 ms old is accepted.  *)
(***************************************************************************)
C4_Boundary ==
  [][\A t \in Threads :
       /\ \A i \in Instruments, p \in Prices, s \in Skews :
            (CountOp /\ AddTickCall(t, i, p, now + s))
              => /\ (now + s >= now - 60000) => Admitted(t)
                 /\ (now + s <= now - 60001) => Rejected(t)
       /\ Recording(t) => ret'[t] = BoolRet(TRUE)
    ]_vars

\* a tick exactly 60000 ms old has been accepted
C4_Witness ==
  \E t \in Threads :
    /\ ret[t] = BoolRet(TRUE)
    /\ \E x \in AcceptedTicks : x.timestamp_ms = now - 60000

(***************************************************************************)
(* C5.  When every thread has made the same number M of calls, all of      *)
(* them accepted add_ticks of one instrument with one timestamp, and all   *)
(* have returned, that instrument's count is N * M and its sum the sum of  *)
(* the prices ingested (so avg their average); the same for the global     *)
(* aggregator.  Checked under SpecThreads, every interleaving.             *)
(***************************************************************************)
AllReturned == \A t \in Threads : pc[t] = "idle"

C5_NoLostUpdate ==
  \A m \in 1 .. MaxThreadCalls, i \in Instruments :
    LET n == Cardinality(Threads) * m
    IN ( /\ AllReturned
         /\ \A t \in Threads : calls[t] = m
         /\ BagCardinality(accepted) = n
         /\ \A x \in AcceptedTicks : x.instrument = i
         /\ \A x, y \in AcceptedTicks : x.timestamp_ms = y.timestamp_ms )
       => /\ i \in DOMAIN instruments
          /\ heap[instruments[i]].count = n
          /\ heap[instruments[i]].sum = PriceSum(AcceptedTicks)
          /\ StatisticsInstrument(i).avg = Quotient(PriceSum(AcceptedTicks), n)
          /\ global_count = n
          /\ global_sum = PriceSum(AcceptedTicks)
          /\ StatisticsAll.avg = Quotient(PriceSum(AcceptedTicks), n)

\* every thread has ingested for the same instrument and timestamp, and returned
C5_Witness ==
  /\ AllReturned
  /\ \A t \in Threads : calls[t] >= 1 /\ ret[t] = BoolRet(TRUE)
  /\ BagCardinality(accepted) = calls["t1"] + calls["t2"]
  /\ \A x, y \in AcceptedTicks :
       x.instrument = y.instrument /\ x.timestamp_ms = y.timestamp_ms

(***************************************************************************)
(* C6.  A snapshot returns the statistics of the engine as a completed     *)
(* add_tick left it: those before an add_tick in flight, or those after    *)
(* it, never those of a partly applied ingest.  Checked under SpecThreads. *)
(***************************************************************************)
C6_SnapshotAtomic ==
  [][\A t \in Threads :
       /\ (Counted /\ GetAllReturn(t)) => ret'[t].stats = stable.all
       /\ (Counted /\ GetInstReturn(t))
            => ret'[t].stats = stable.inst[local[t].instrument]
    ]_vars

\* a snapshot is being taken while an add_tick is in flight
C6_Witness ==
  \E t, u \in Threads :
    /\ pc[t] \in {"ga_read", "gi_read"}
    /\ pc[u] = "acquire"
    /\ global_count > 0
    /\ Stale(global_buckets[local[u].idx], local[u].ts_sec)
    /\ global_buckets[local[u].idx].count > 0

(***************************************************************************)
(* C7.  From the fresh engine, when the accepted ticks all carry one       *)
(* timestamp, the global snapshot is count, min, max and avg of all of     *)
(* them, and each instrument's snapshot those of its own ticks.            *)
(***************************************************************************)
C7_Aggregation ==
  (/\ AcceptedTicks # {}
   /\ \A x, y \in AcceptedTicks : x.timestamp_ms = y.timestamp_ms)
    => /\ StatisticsAll = StatsOfTicks(AcceptedTicks)
       /\ \A i \in Instruments :
            TicksOf(i) # {} => StatisticsInstrument(i) = StatsOfTicks(TicksOf(i))

\* two ticks of different prices and instruments with one timestamp
C7_Witness ==
  /\ BagCardinality(accepted) = 2
  /\ \A x, y \in AcceptedTicks : x.timestamp_ms = y.timestamp_ms
  /\ \E x, y \in AcceptedTicks : x.price < y.price /\ x.instrument # y.instrument
  /\ StatisticsAll.count = 2

(***************************************************************************)
(* C8.  Before any ingest every snapshot is all-zero, and an instrument    *)
(* that never had a tick accepted always reads all-zero, a normal value,   *)
(* whatever the other instruments have ingested.                           *)
(***************************************************************************)
C8_UnknownReadsZero ==
  /\ accepted = EmptyBag
       => /\ StatisticsAll = ZeroStats
          /\ \A i \in Instruments : StatisticsInstrument(i) = ZeroStats
  /\ \A i \in Instruments : TicksOf(i) = {} => StatisticsInstrument(i) = ZeroStats

\* an all-zero result was returned while another instrument holds ticks
C8_Witness ==
  /\ \E i \in Instruments : TicksOf(i) = {}
  /\ \E i \in Instruments : TicksOf(i) # {} /\ StatisticsInstrument(i).count > 0
  /\ \E t \in Threads : ret[t] = StatsRet(ZeroStats)

(***************************************************************************)
(* C9.  When a tick for second s' is recorded into a slot whose bucket     *)
(* holds ticks of a second s <= s' - 60, then afterwards the running       *)
(* count and sum no longer contain that bucket's, the bucket holds the     *)
(* new tick alone, and the ring still has its 60 buckets; globally and     *)
(* for the instrument.                                                     *)
(***************************************************************************)
FreshBucket(b, l) ==
  b = [timestamp |-> l.ts_sec, sum |-> l.price, count |-> 1,
       min_price |-> l.price, max_price |-> l.price]

Cycled(b, l) == b.count > 0 /\ l.ts_sec >= b.timestamp + SLIDING_WINDOW

C9_RollingEviction ==
  [][\A t \in Threads : Recording(t) =>
       LET l == local[t]
           g == global_buckets[l.idx]
       IN /\ Cycled(g, l) =>
               /\ global_count' = global_count - g.count + 1
               /\ global_sum' = global_sum - g.sum + l.price
               /\ FreshBucket(global_buckets'[l.idx], l)
               /\ DOMAIN global_buckets' = Slots
               /\ Cardinality(DOMAIN global_buckets') = 60
          /\ l.instrument \in DOMAIN instruments =>
               LET o == instruments[l.instrument]
                   b == heap[o].buckets[l.idx]
               IN Cycled(b, l) =>
                    /\ instruments'[l.instrument] = o
                    /\ heap'[o].count = heap[o].count - b.count + 1
                    /\ heap'[o].sum = heap[o].sum - b.sum + l.price
                    /\ FreshBucket(heap'[o].buckets[l.idx], l)
                    /\ DOMAIN heap'[o].buckets = Slots
    ]_vars

\* the second tick has taken over the slot of the first, 60 seconds older
C9_Witness ==
  /\ BagCardinality(accepted) = 2
  /\ \E x, y \in AcceptedTicks :
       /\ SecondOf(y) >= SecondOf(x) + 60
       /\ SecondOf(y) % 60 = SecondOf(x) % 60
       /\ x.instrument = y.instrument
       /\ global_buckets[SecondOf(y) % 60].timestamp = SecondOf(y)
       /\ global_buckets[SecondOf(y) % 60].count = 1
       /\ global_count = 1

(***************************************************************************)
(* C10.  A tick timestamped ahead of the clock is admitted, add_tick       *)
(* returns True, the tick is in the bucket at index                        *)
(* (timestamp_ms div 1000) mod 60, and the snapshots taken right after     *)
(* count it: global and instrument count >= 1, its price in the sums.      *)
(***************************************************************************)
C10_FutureTickAccepted ==
  [][\A t \in Threads :
       /\ \A i \in Instruments, p \in Prices, s \in Skews :
            (s > 0 /\ CountOp /\ AddTickCall(t, i, p, now + s)) => Admitted(t)
       /\ (Recording(t) /\ local[t].timestamp_ms > local[t].now_ms) =>
            LET l == local[t]
                sec == l.timestamp_ms \div 1000
                slot == sec % 60
                g == global_buckets[slot]
                evicted == IF g.timestamp # sec THEN g.sum ELSE 0
            IN /\ ret'[t] = BoolRet(TRUE)
               /\ global_buckets'[slot].timestamp = sec
               /\ global_buckets'[slot].count >= 1
               /\ global_buckets'[slot].sum >= l.price
               /\ global_sum' = global_sum - evicted + l.price
               /\ StatisticsAll'.count >= 1
               /\ l.instrument \in DOMAIN instruments'
               /\ heap'[instruments'[l.instrument]].buckets[slot].timestamp = sec
               /\ heap'[instruments'[l.instrument]].sum >= l.price
               /\ SnapshotInstrument(Engine', l.instrument).count >= 1
    ]_vars

\* a tick of a second ahead of the clock's has been recorded
C10_Witness ==
  \E x \in AcceptedTicks :
    /\ x.timestamp_ms > now
    /\ SecondOf(x) > now \div 1000
    /\ global_buckets[SecondOf(x) % 60].timestamp = SecondOf(x)
    /\ StatisticsInstrument(x.instrument).count >= 1

InWindowOf(second, now_ms) ==
  /\ second >= (now_ms \div 1000) - (SLIDING_WINDOW - 1)
  /\ second <= now_ms \div 1000

\* recording l's tick into bucket b evicts ticks still in the window
EvictsLive(b, l) ==
  /\ b.timestamp # l.ts_sec
  /\ b.count > 0
  /\ InWindowOf(b.timestamp, l.now_ms)

C12_EvictsOnlyOutOfWindow ==
  [][\A t \in Threads : Recording(t) =>
       LET l == local[t]
       IN /\ ~EvictsLive(global_buckets[l.idx], l)
          /\ l.instrument \in DOMAIN instruments =>
               ~EvictsLive(heap[instruments[l.instrument]].buckets[l.idx], l)
    ]_vars

(***************************************************************************)
(* C13.  The running extremes only tighten, for the life of an aggregator: *)
(* no step raises a running min or lowers a running max, globally or of    *)
(* any aggregator object, evictions included; the recording of a tick of   *)
(* price p makes min the smaller of the old min and p and max the larger   *)
(* of the old max and p, and after it the min and max a snapshot shows     *)
(* are the lowest and highest price of all ticks ever accepted, globally   *)
(* and for the tick's instrument, the extremes of the other instruments    *)
(* staying as they were; a step that records no tick leaves the accepted   *)
(* ticks, the counts and the extremes as they were.                        *)
(***************************************************************************)
\* the running extremes of instrument i's aggregator, if it has one
InstMin(i) ==
  IF i \in DOMAIN instruments THEN heap[instruments[i]].min_price ELSE PosInf

InstMax(i) ==
  IF i \in DOMAIN instruments THEN heap[instruments[i]].max_price ELSE NegInf

ObjectsOf(i) == {o \in DOMAIN heap : o[1] = i}

\* all accepted ticks of instrument i are of one second
OneSecond(i) == \A x, y \in TicksOf(i) : SecondOf(x) = SecondOf(y)

\* no add_tick is inside its critical section
NoneRecording ==
  \A t \in Threads :
    pc[t] \in {"idle", "acquire", "ga_acquire", "ga_read", "gi_acquire", "gi_read"}

RegistryExact ==
  /\ \A i \in Instruments : Cardinality(ObjectsOf(i)) <= 1
  /\ \A i \in DOMAIN instruments : instruments[i] \in ObjectsOf(i)
  /\ NoneRecording =>
       /\ DOMAIN instruments = {x.instrument : x \in AcceptedTicks}
       /\ \A i \in DOMAIN instruments : OneSecond(i) =>
            /\ heap[instruments[i]].count = TickCount(TicksOf(i))
            /\ heap[instruments[i]].sum = PriceSum(TicksOf(i))

C14_OneAggregatorPerInstrument ==
  [][/\ \A i \in DOMAIN instruments :
          /\ i \in DOMAIN instruments'
          /\ instruments'[i] = instruments[i]
     /\ \A o \in DOMAIN heap : o \in DOMAIN heap'
     /\ RegistryExact'
    ]_vars

\* one thread is about to construct the aggregator of an unseen id while
\* the other waits at the lock with a tick of the same id
C14_Witness ==
  \E t, u \in Threads :
    /\ t # u
    /\ pc[t] = "icreate"
    /\ local[t].inst = NoObject
    /\ pc[u] = "acquire"
    /\ local[u].instrument = local[t].instrument
    /\ local[t].instrument \notin DOMAIN instruments
    /\ lock = t

(***************************************************************************)
(* C15.  No call blocks forever: at every moment at most one thread is     *)
(* inside a lock-guarded section and it is the lock's holder; an add_tick  *)
(* that rejects its tick returns in that step without touching the lock;   *)
(* and under a fair scheduler every call in progress eventually returns,   *)
(* the thread then not holding the lock.                                   *)
(***************************************************************************)
\* the thread is inside a with self.lock block
Inside(t) ==
  pc[t] \in {"gevict", "gbucket", "gtotals", "iget", "icreate", "iadd",
             "release", "ga_read", "gi_read"}

MutualExclusion ==
  /\ Cardinality({t \in Threads : Inside(t)}) <= 1
  /\ \A t \in Threads : Inside(t) <=> lock = t

C15_NoCallBlocksForever ==
  /\ []MutualExclusion
  /\ [][\A t \in Threads, i \in Instruments, p \in Prices, s \in FairSkews :
          (CountFair(t) /\ AddTickCall(t, i, p, now + s) /\ TooOld(now + s, now)) =>
             /\ UNCHANGED lock
             /\ lock # t
             /\ pc'[t] = "idle"
             /\ ret'[t] = BoolRet(FALSE)
      ]_vars
  /\ \A t \in Threads : (pc[t] # "idle") ~> (pc[t] = "idle" /\ lock # t)

\* a thread waits for the lock while the other is inside add_tick, and a
\* tick has been rejected before
C15_Witness ==
  \E t, u \in Threads :
    /\ t # u
    /\ pc[t] \in {"acquire", "ga_acquire", "gi_acquire"}
    /\ Inside(u)
    /\ lock = u
    /\ calls[t] + calls[u] = 3

(***************************************************************************)
(* C16.  Each bucket stands for one epoch second at a time: whenever no    *)
(* add_tick is inside its critical section, in the global ring and in      *)
(* every instrument's ring, a bucket at index i with count > 0             *)
(* has a stored timestamp t with t mod 60 = i, and its sum, count,         *)
(* min_price and max_price are the sum, number, lowest and highest of the  *)
(* prices recorded for second t since the bucket was last reset; a bucket  *)
(* with count = 0 has sum 0, min_price +inf and max_price -inf.            *)
(***************************************************************************)
\* the sum of the prices in the bag B
RECURSIVE BagSum(_)
BagSum(B) ==
  IF DOMAIN B = {} THEN 0
  ELSE LET p == CHOOSE q \in DOMAIN B : TRUE
       IN p * B[p] + BagSum([q \in DOMAIN B \ {p} |-> B[q]])

\* bucket b of the ring at the slot is what the prices recorded there say
BucketOfRun(b, ring, slot) ==
  IF b.count > 0
  THEN /\ b.timestamp % SLIDING_WINDOW = slot
       /\ <<ring, slot>> \in DOMAIN runs
       /\ LET run == runs[<<ring, slot>>]
          IN /\ run.second = b.timestamp
             /\ b.count = BagCardinality(run.prices)
             /\ b.sum = BagSum(run.prices)
             /\ b.min_price \in DOMAIN run.prices
             /\ \A q \in DOMAIN run.prices : b.min_price <= q
             /\ b.max_price \in DOMAIN run.prices
             /\ \A q \in DOMAIN run.prices : b.max_price >= q
  ELSE /\ b.sum = 0
       /\ b.min_price = PosInf
       /\ b.max_price = NegInf
       /\ <<ring, slot>> \notin DOMAIN runs

C16_BucketIsOneSecond ==
  NoneRecording =>
    \A slot \in Slots :
      /\ BucketOfRun(global_buckets[slot], "global", slot)
      /\ \A i \in DOMAIN instruments :
           BucketOfRun(heap[instruments[i]].buckets[slot], i, slot)

\* a bucket has been reset for a newer second and holds one tick, of a
\* price above that of the tick it held before
C16_Witness ==
  /\ NoneRecording
  /\ BagCardinality(accepted) = 2
  /\ \E x, y \in AcceptedTicks :
       /\ SecondOf(x) # SecondOf(y)
       /\ SecondOf(x) % 60 = SecondOf(y) % 60
       /\ x.price < y.price
       /\ x.instrument = y.instrument
       /\ global_buckets[SecondOf(y) % 60] =
            [timestamp |-> SecondOf(y), sum |-> y.price, count |-> 1,
             min_price |-> y.price, max_price |-> y.price]
       /\ heap[instruments[y.instrument]].buckets[SecondOf(y) % 60].min_price = y.price

(***************************************************************************)
(* C17.  Whenever no add_tick is inside its critical section, the running  *)
(* count of the global aggregator and of every instrument's aggregator is  *)
(* the sum of count over all 60 of its buckets and the running sum the     *)
(* sum of sum over all 60, whether or not a bucket's second is inside the  *)
(* trailing window; so a running count is never negative.                  *)
(***************************************************************************)
\* the slots of a ring whose bucket adds something to a total
Holding(buckets) ==
  {slot \in Slots : buckets[slot].count # 0 \/ buckets[slot].sum # 0}

\* sum of field f over the buckets of the slots S
RECURSIVE SlotsTotal(_, _, _)
SlotsTotal(buckets, f, S) ==
  IF S = {} THEN 0
  ELSE LET n == CHOOSE m \in S : TRUE
       IN buckets[n][f] + SlotsTotal(buckets, f, S \ {n})

\* running totals that are the totals over all 60 buckets, the buckets
\* outside Holding adding 0 to either
TotalsOfRing(buckets, sum, count) ==
  LET S == Holding(buckets)
  IN /\ DOMAIN buckets = Slots
     /\ count = SlotsTotal(buckets, "count", S)
     /\ sum = SlotsTotal(buckets, "sum", S)
     /\ count >= 0
     /\ \A slot \in S : buckets[slot].count > 0

Bracketed(sum, count, min_price, max_price) ==
  count > 0 =>
    /\ min_price * count <= sum
    /\ sum <= max_price * count

\* a snapshot whose min <= avg <= max, and all-zero exactly when count is 0
ConsistentStats(st) ==
  /\ st.count = 0 <=> st = ZeroStats
  /\ st.count > 0 =>
       /\ st.min[1] * st.avg[2] <= st.avg[1] * st.min[2]
       /\ st.avg[1] * st.max[2] <= st.max[1] * st.avg[2]
       /\ st.avg[2] > 0

C18_SnapshotConsistent ==
  /\ Bracketed(global_sum, global_count, global_min, global_max)
  /\ ConsistentStats(StatisticsAll)
  /\ \A i \in Instruments : ConsistentStats(StatisticsInstrument(i))
  /\ \A o \in DOMAIN heap :
       Bracketed(heap[o].sum, heap[o].count, heap[o].min_price, heap[o].max_price)

\* a snapshot of one tick whose min is the price of a tick evicted before
C18_Witness ==
  /\ NoneRecording
  /\ StatisticsAll.count = 1
  /\ StatisticsAll.min = Whole(10)
  /\ StatisticsAll.avg = Whole(20)
  /\ StatisticsAll.max = Whole(20)
  /\ \E i \in Instruments : StatisticsInstrument(i) = StatisticsAll

(***************************************************************************)
(* C19.  An instrument's statistics are part of the global ones: whenever  *)
(* no add_tick is inside its critical section, the count                   *)
(* get_statistics_instrument returns for any instrument is at most the     *)
(* count get_statistics_all returns.  Fails: at clock 120500 two ticks of  *)
(* A with timestamp 60500 and then one tick of B with timestamp 120500     *)
(* leave A with count 2 and the global count at 1.                         *)
(***************************************************************************)
C19_InstrumentWithinGlobal ==
  NoneRecording =>
    \A i \in Instruments : StatisticsInstrument(i).count <= StatisticsAll.count

(***************************************************************************)
(* C20.  The recording of a tick of instrument A and second s changes      *)
(* only the global bucket at index s mod 60, the global running totals,    *)
(* A's bucket at index s mod 60 and A's running totals, constructing and   *)
(* registering A's aggregator if A had none: every other global bucket,    *)
(* every other bucket of A, the registry entries, buckets, totals and      *)
(* snapshots of every other instrument stay as they were.                  *)
(***************************************************************************)
\* instrument i's bucket at the slot, a fresh one if i has no aggregator
InstBucket(i, slot) ==
  IF i \in DOMAIN instruments
  THEN heap[instruments[i]].buckets[slot]
  ELSE NewBucket

C20_TickTouchesItsSlotsOnly ==
  [][\A t \in Threads : Recording(t) =>
       LET l == local[t]
       IN /\ \A slot \in Slots \ {l.idx} :
               global_buckets'[slot] = global_buckets[slot]
          /\ global_buckets'[l.idx] # global_buckets[l.idx]
          /\ global_buckets'[l.idx].timestamp = l.ts_sec
          /\ DOMAIN instruments' = DOMAIN instruments \cup {l.instrument}
          /\ \A j \in DOMAIN instruments : instruments'[j] = instruments[j]
          /\ DOMAIN heap' = DOMAIN heap \cup {instruments'[l.instrument]}
          /\ \A o \in DOMAIN heap :
               o # InstrumentsGet(Engine, l.instrument) => heap'[o] = heap[o]
          /\ \A slot \in Slots \ {l.idx} :
               heap'[instruments'[l.instrument]].buckets[slot] =
                 InstBucket(l.instrument, slot)
          /\ heap'[instruments'[l.instrument]].buckets[l.idx] #
               InstBucket(l.instrument, l.idx)
          /\ \A j \in Instruments \ {l.instrument} :
               SnapshotInstrument(Engine', j) = StatisticsInstrument(j)
    ]_vars

\* a tick of one instrument has taken over the global slot of the other
\* instrument's tick, whose own bucket of the older second is as it was
C20_Witness ==
  /\ DOMAIN instruments = Instruments
  /\ \E x, y \in AcceptedTicks :
       /\ x.instrument # y.instrument
       /\ SecondOf(x) < SecondOf(y)
       /\ SecondOf(x) % 60 = SecondOf(y) % 60
       /\ global_buckets[SecondOf(y) % 60].timestamp = SecondOf(y)
       /\ heap[instruments[x.instrument]].buckets[SecondOf(x) % 60] =
            [timestamp |-> SecondOf(x), sum |-> x.price, count |-> 1,
             min_price |-> x.price, max_price |-> x.price]
       /\ heap[instruments[y.instrument]].buckets[SecondOf(y) % 60].timestamp =
            SecondOf(y)

====
